---- MODULE Spec2Model ----
(***************************************************************************)
(* hextile: tiling of lon/lat polygons by square or hexagonal cells.       *)
(*                                                                         *)
(* src/src/index.js holds two revisions of the exported function:          *)
(*   lines  16-215  the tilt-aware revision (projection, lattice axes,     *)
(*                  keep flags set by boundary tracing), and               *)
(*   lines 229-366  the axis-aligned revision (grid enumeration followed   *)
(*                  by an output filter).                                  *)
(* src/src/helpers.js holds the helpers of the tilt-aware revision,        *)
(* src/unnamed/part_000 the helper of the axis-aligned revision.           *)
(*                                                                         *)
(* Numbers.  A JavaScript double is modelled by an exact rational <<n, d>> *)
(* with d > 0, reduced; d = 0 encodes the non-finite doubles that a        *)
(* division by zero produces: <<1,0>> Infinity, <<-1,0>> -Infinity,        *)
(* <<0,0>> NaN.  Rounding error of the doubles is not modelled.            *)
(*                                                                         *)
(* Geography.  One geographic unit is GeoUnit metres of arc, so that the   *)
(* factor width / radius * rad2deg of the projection is width / GeoUnit;   *)
(* the cosine of the centre's latitude is taken as 1 (a low-latitude       *)
(* frame).                                                                 *)
(***************************************************************************)
EXTENDS Integers, Sequences, FiniteSets, TLC

VARIABLES
    rev,        \* which revision of module.exports is the one in use
    pc,         \* "idle", "tracing", "returned", "threw", "solved", "tested"
    calls,      \* number of hextile calls made so far
    options,    \* the caller's options object (written to by every call)
    supplied,   \* the option values the caller supplied to the current call
    geojson,    \* the geometry passed to the current call
    input,      \* normalised polygons of the current call
    output,     \* the variable `output` of the current call
    edges,      \* the projected edges of the input, in forEach order
    cursor,     \* how many of them the tracing loop has completed
    traced,     \* the indices of the edges whose pass has run
    returned,   \* the value the call returned
    error,      \* the error the call threw
    solution,   \* the point a direct call of linearSolver returned
    verdict     \* what a direct call of isInside returned, and for which arguments

vars == <<rev, pc, calls, options, supplied, geojson, input, output, edges,
          cursor, traced, returned, error, solution, verdict>>

(***************************************************************************)
(* Bounds                                                                  *)
(***************************************************************************)
\* number of successive hextile calls on one options object
MaxCalls == 2
\* magnitude of the targets handed to a direct linearSolver call
MaxTarget == 2

\* query points of a direct call of isInside have integer coordinates of at most this size
ProbeSpan == 9
\* how many times in one call an edge already traced is traced again
MaxRetraced == 1

(***************************************************************************)
(* Doubles as rationals                                                    *)
(***************************************************************************)
Abs(x) == IF x < 0 THEN -x ELSE x

Sign(x) == IF x < 0 THEN -1 ELSE IF x > 0 THEN 1 ELSE 0

RECURSIVE GCD(_, _)
GCD(a, b) == IF b = 0 THEN a ELSE GCD(b, a % b)

\* the double n / d
Rat(n, d) ==
    IF d = 0 THEN <<Sign(n), 0>>
    ELSE LET g == GCD(Abs(n), Abs(d))
             s == IF d < 0 THEN -1 ELSE 1
         IN  <<(s * n) \div g, (s * d) \div g>>

Num(n) == <<n, 1>>

NaN == <<0, 0>>

IsFinite(a) == a[2] # 0

IsNaN(a) == a = NaN

Neg(a) == <<-a[1], a[2]>>

Add(a, b) ==
    IF IsFinite(a) /\ IsFinite(b) THEN Rat(a[1] * b[2] + b[1] * a[2], a[2] * b[2])
    ELSE IF IsNaN(a) \/ IsNaN(b) THEN NaN
    ELSE IF IsFinite(a) THEN b
    ELSE IF IsFinite(b) THEN a
    ELSE IF a = b THEN a ELSE NaN

Sub(a, b) == Add(a, Neg(b))

Mul(a, b) == Rat(a[1] * b[1], a[2] * b[2])

\* IEEE division: x / 0 is an infinity, 0 / 0 is NaN
Div(a, b) ==
    IF IsNaN(a) \/ IsNaN(b) THEN NaN
    ELSE IF ~IsFinite(a) THEN (IF IsFinite(b) THEN <<a[1] * (IF b[1] < 0 THEN -1 ELSE 1), 0>> ELSE NaN)
    ELSE IF ~IsFinite(b) THEN Num(0)
    ELSE Rat(a[1] * b[2], a[2] * b[1])

\* a < b, a <= b on doubles (every comparison with NaN is false)
Lt(a, b) ==
    IF IsNaN(a) \/ IsNaN(b) THEN FALSE
    ELSE IF ~IsFinite(a) /\ ~IsFinite(b) THEN a[1] < b[1]
    ELSE IF ~IsFinite(a) THEN a[1] < 0
    ELSE IF ~IsFinite(b) THEN b[1] > 0
    ELSE a[1] * b[2] < b[1] * a[2]

Le(a, b) == Lt(a, b) \/ (~IsNaN(a) /\ a = b)

\* Math.floor and Math.ceil of a finite double, as an integer
Floor(a) == a[1] \div a[2]

Ceil(a) == -((-a[1]) \div a[2])

\* lodash min / max of a non-empty collection of numbers
min(S) == CHOOSE m \in S : \A x \in S : Le(m, x)

max(S) == CHOOSE m \in S : \A x \in S : Le(x, m)

(***************************************************************************)
(* helpers.js                                                              *)
(***************************************************************************)
\* metres of arc per geographic unit (stands for radius / rad2deg)
GeoUnit == 125

\* an absent property is <<>>, a present one <<value>>
Absent == <<>>

\* o || dflt for a number (undefined and 0 are falsy)
NumOr(o, dflt) == IF o = Absent \/ o[1] = 0 THEN dflt ELSE o[1]

\* o || dflt for a string, an array or an object
ObjOr(o, dflt) == IF o = Absent THEN dflt ELSE o[1]

MathMax(a, b) == IF a >= b THEN a ELSE b

MathMin(a, b) == IF a <= b THEN a ELSE b

\* equirectangular(center, width): the closure keeps center, dx and dy
equirectangular(center, width) ==
    LET dy == Rat(width, GeoUnit)
        dx == Rat(width, GeoUnit)
    IN  [center |-> center, dx |-> dx, dy |-> dy]

forward(projection, p) ==
    <<Div(Sub(p[1], projection.center[1]), projection.dx),
      Div(Sub(p[2], projection.center[2]), projection.dy)>>

inverse(projection, p) ==
    <<Add(projection.center[1], Mul(p[1], projection.dx)),
      Add(projection.center[2], Mul(p[2], projection.dy))>>

\* polar2cartesian(theta) = [sin theta, -cos theta], for theta a multiple of 90
polar2cartesian(theta) ==
    LET t == theta % 360
    IN  CASE t = 0   -> <<Num(0), Num(-1)>>
          [] t = 90  -> <<Num(1), Num(0)>>
          [] t = 180 -> <<Num(0), Num(1)>>
          [] t = 270 -> <<Num(-1), Num(0)>>

dotProduct(v1, v2) == Add(Add(Num(0), Mul(v1[1], v2[1])), Mul(v1[2], v2[2]))

\* the determinant linearSolver computes when it is built
DET(axis1, axis2) == Sub(Mul(axis1[1], axis2[2]), Mul(axis2[1], axis1[2]))

\* linearSolver([alpha1, beta1], [alpha2, beta2])(d1, d2)
linearSolver(axis1, axis2, d1, d2) ==
    <<Div(Sub(Mul(axis2[2], d1), Mul(axis1[2], d2)), DET(axis1, axis2)),
      Div(Add(Mul(Neg(axis2[1]), d1), Mul(axis1[1], d2)), DET(axis1, axis2))>>

\* one pass of the loop of isInside: does the edge (i-1, i) flip the parity?
isInsideFlips(point, linearRing, i) ==
    LET deltaYplus  == Sub(linearRing[i][2], point[2])
        deltaYminus == Sub(point[2], linearRing[i - 1][2])
        deltaX == Sub(Div(Add(Mul(deltaYplus, linearRing[i - 1][1]),
                              Mul(deltaYminus, linearRing[i][1])),
                          Add(deltaYplus, deltaYminus)),
                      point[1])
    IN  /\ ~(Lt(Num(0), deltaYplus) /\ Le(deltaYminus, Num(0)))
        /\ ~(Lt(deltaYplus, Num(0)) /\ Le(Num(0), deltaYminus))
        /\ ~Le(deltaX, Num(0))

\* isInside([lng, lat], linearRing)
isInside(point, linearRing) ==
    Cardinality({i \in 2..Len(linearRing) : isInsideFlips(point, linearRing, i)}) % 2 = 1

\* getAngularDistance()(center, width) = [tx, ty]
getAngularDistance(center, width) == <<Rat(width, GeoUnit), Rat(width, GeoUnit)>>

(***************************************************************************)
(* index.js, lines 16-215: the tilt-aware revision                         *)
(***************************************************************************)
\* a lon/lat position of the input, given in whole geographic units
Position(p) == <<Num(p[1]), Num(p[2])>>

Ring(r) == [n \in DOMAIN r |-> Position(r[n])]

\* extractPolygons: the coordinates of every polygon of the geometry
extractPolygons(g) == [p \in DOMAIN g |-> [r \in DOMAIN g[p] |-> Ring(g[p][r])]]

\* min / max of the outer ring's longitudes and latitudes
\* (lodash min(collection, iteratee) taken as the least iteratee value)
polygonBbox(coordinates) ==
    <<min({coordinates[1][n][1] : n \in DOMAIN coordinates[1]}),
      min({coordinates[1][n][2] : n \in DOMAIN coordinates[1]}),
      max({coordinates[1][n][1] : n \in DOMAIN coordinates[1]}),
      max({coordinates[1][n][2] : n \in DOMAIN coordinates[1]})>>

normalize(g) ==
    LET polygons == extractPolygons(g)
    IN  [p \in DOMAIN polygons |->
            [coordinates |-> polygons[p], bbox |-> polygonBbox(polygons[p])]]

combinedBbox(in) ==
    <<min({in[p].bbox[1] : p \in DOMAIN in}),
      min({in[p].bbox[2] : p \in DOMAIN in}),
      max({in[p].bbox[3] : p \in DOMAIN in}),
      max({in[p].bbox[4] : p \in DOMAIN in})>>

bboxCenter(bbox) ==
    <<Div(Add(bbox[1], bbox[3]), Num(2)), Div(Add(bbox[2], bbox[4]), Num(2))>>

\* the width the call works with: default, then the two clamps
clampWidth(width) == MathMin(MathMax(NumOr(width, 1000), 500), 20000)

\* lines 54-60: every default is written into the caller's options object
tiltDefaults(o, bbox) ==
    LET shape  == ObjOr(o.shape, "square")
        tilt   == NumOr(o.tilt, 0)
        width  == clampWidth(o.width)
        center == ObjOr(o.center, bboxCenter(bbox))
        projection == ObjOr(o.projection, equirectangular(center, width))
    IN  [o EXCEPT !.shape = <<shape>>, !.tilt = <<tilt>>, !.width = <<width>>,
                  !.center = <<center>>, !.projection = <<projection>>]

\* lines 72-92: k.bound, k.minIndex, k.maxIndex of one axis
axisBound(beta, projection, bbox) ==
    {dotProduct(beta, forward(projection, <<bbox[1], bbox[2]>>)),
     dotProduct(beta, forward(projection, <<bbox[1], bbox[4]>>)),
     dotProduct(beta, forward(projection, <<bbox[3], bbox[2]>>)),
     dotProduct(beta, forward(projection, <<bbox[3], bbox[4]>>))}

minIndex(beta, projection, bbox) == Floor(min(axisBound(beta, projection, bbox)))

maxIndex(beta, projection, bbox) == Ceil(max(axisBound(beta, projection, bbox)))

Half(i) == Rat(2 * i + 1, 2)

\* lines 99-109: the record stored at output[i][j]
squareCell(beta0, beta1, i, j) ==
    [properties |-> [address |-> linearSolver(beta0, beta1, Half(i), Half(j))],
     coordinates |-> <<
        <<linearSolver(beta0, beta1, Num(i), Num(j)),
          linearSolver(beta0, beta1, Num(i), Num(j + 1)),
          linearSolver(beta0, beta1, Num(i + 1), Num(j + 1)),
          linearSolver(beta0, beta1, Num(i + 1), Num(j))>> >>,
     keep |-> FALSE]

\* lines 96-111: output[i][j] for minIndex <= i < maxIndex on either axis
enumerateSquares(beta0, beta1, projection, bbox) ==
    [a \in (minIndex(beta0, projection, bbox)..(maxIndex(beta0, projection, bbox) - 1))
           \X (minIndex(beta1, projection, bbox)..(maxIndex(beta1, projection, bbox) - 1))
       |-> squareCell(beta0, beta1, a[1], a[2])]

\* line 115 and the loop header of line 116: the projected edges of one ring
ringEdges(projection, linearRing) ==
    [n \in 1..(Len(linearRing) - 1) |->
        <<forward(projection, linearRing[n]), forward(projection, linearRing[n + 1])>>]

RECURSIVE Flatten(_)
Flatten(ss) == IF ss = <<>> THEN <<>> ELSE Head(ss) \o Flatten(Tail(ss))

\* lines 113-116: every edge of every ring of every polygon, in forEach order
allEdges(projection, in) ==
    Flatten([p \in DOMAIN in |->
        Flatten([r \in DOMAIN in[p].coordinates |->
            ringEdges(projection, in[p].coordinates[r])])])

\* lines 117-122 and 139-144: range, start and end of one edge on one axis
edgeStart(beta, e) ==
    Floor(Add(min({dotProduct(beta, e[1]), dotProduct(beta, e[2])}), Num(1)))

edgeEnd(beta, e) ==
    Ceil(Sub(max({dotProduct(beta, e[1]), dotProduct(beta, e[2])}), Num(1)))

\* lines 124-129: the coefficients of the edge's line
edgeBeta(e) == <<Sub(e[2][2], e[1][2]), Sub(e[1][1], e[2][1])>>

edgeK(e) == Sub(Mul(e[1][1], e[2][2]), Mul(e[1][2], e[2][1]))

\* lines 131-136: the addresses whose keep flag the axis-0 loop writes, in order
axis0Writes(beta0, beta1, e) ==
    LET start == edgeStart(beta0, e)
        end   == edgeEnd(beta0, e)
        j(i)  == Floor(dotProduct(beta1,
                     linearSolver(beta0, edgeBeta(e), Num(i), edgeK(e))))
    IN  IF end >= start
        THEN [n \in 1..(2 * (end - start + 1)) |->
                LET i == start + ((n - 1) \div 2)
                IN  IF n % 2 = 1 THEN <<i, j(i)>> ELSE <<i - 1, j(i)>>]
        ELSE <<>>

\* the first write of the axis-0 loop that meets no cell (a TypeError), or 0
firstMissing(out, writes) ==
    LET missing == {n \in DOMAIN writes : writes[n] \notin DOMAIN out}
    IN  IF missing = {} THEN 0
        ELSE CHOOSE n \in missing : \A m \in missing : n <= m

\* a pass that inverts the keep flags it writes rather than setting them
traceEdgeInverting(out, beta0, beta1, e) ==
    LET writes == axis0Writes(beta0, beta1, e)
        bad    == firstMissing(out, writes)
        done   == IF bad = 0 THEN Len(writes) ELSE bad - 1
        kept   == {writes[n] : n \in 1..done}
    IN  [output |-> [a \in DOMAIN out |->
                        IF a \in kept THEN [out[a] EXCEPT !.keep = ~out[a].keep] ELSE out[a]],
         thrown |-> IF bad # 0 THEN "cell"
                    ELSE IF edgeEnd(beta1, e) >= edgeStart(beta1, e) THEN "axis1"
                    ELSE "none"]

\* lines 116-159, one pass of the loop over n:
\* axis 0 sets keep flags until a write meets no cell; axis 1 reads `i` before
\* its declaration whenever end >= start, so its loop body cannot complete
traceEdge(out, beta0, beta1, e) ==
    LET writes == axis0Writes(beta0, beta1, e)
        bad    == firstMissing(out, writes)
        done   == IF bad = 0 THEN Len(writes) ELSE bad - 1
        kept   == {writes[n] : n \in 1..done}
    IN  [output |-> [a \in DOMAIN out |->
                        IF a \in kept THEN [out[a] EXCEPT !.keep = TRUE] ELSE out[a]],
         thrown |-> IF bad # 0 THEN "cell"
                    ELSE IF edgeEnd(beta1, e) >= edgeStart(beta1, e) THEN "axis1"
                    ELSE "none"]

beta0Of(o) == polar2cartesian(o.tilt[1])

beta1Of(o) == polar2cartesian(o.tilt[1] + 90)

\* lines 113-162 as a whole: how the tracing of the edges es ends
RECURSIVE traceAll(_, _, _, _)
traceAll(out, beta0, beta1, es) ==
    IF es = <<>> THEN "returned"
    ELSE LET t == traceEdge(out, beta0, beta1, Head(es))
         IN  IF t.thrown # "none" THEN "threw"
             ELSE traceAll(t.output, beta0, beta1, Tail(es))

(***************************************************************************)
(* index.js, lines 229-366: the axis-aligned revision                      *)
(***************************************************************************)
\* Math.sqrt(3) / 2, to three decimals
Sqrt3Half == Rat(433, 500)

ThreeQuarters == Rat(3, 4)

OneHalf == Rat(1, 2)

OneQuarter == Rat(1, 4)

\* lines 250-255
gridBbox(in) ==
    <<min({polygonBbox(in[p])[1] : p \in DOMAIN in}),
      min({polygonBbox(in[p])[2] : p \in DOMAIN in}),
      max({polygonBbox(in[p])[3] : p \in DOMAIN in}),
      max({polygonBbox(in[p])[4] : p \in DOMAIN in})>>

\* lines 257-262
gridDefaults(o, bbox) ==
    LET shape  == ObjOr(o.shape, "square")
        width  == clampWidth(o.width)
        center == ObjOr(o.center, bboxCenter(bbox))
    IN  [o EXCEPT !.shape = <<shape>>, !.width = <<width>>, !.center = <<center>>,
                  !.getAngularDistance = <<"getAngularDistance">>]

\* lines 265-270: [dx, dy] after the hexagon scaling
gridSteps(o) ==
    LET d == getAngularDistance(o.center[1], o.width[1])
    IN  IF o.shape[1] \in {"hexagon", "hexagonA"} THEN <<d[1], Mul(d[2], Sqrt3Half)>>
        ELSE IF o.shape[1] = "hexagonB" THEN <<Mul(d[1], Sqrt3Half), d[2]>>
        ELSE d

\* Number.prototype.toString of an integer, as a sequence of characters
DigitChar(d) == <<"0", "1", "2", "3", "4", "5", "6", "7", "8", "9">>[d + 1]

RECURSIVE Digits(_)
Digits(n) == IF n < 10 THEN <<DigitChar(n)>> ELSE Digits(n \div 10) \o <<DigitChar(n % 10)>>

numberToString(n) == IF n < 0 THEN <<"-">> \o Digits(-n) ELSE Digits(n)

\* [nx, ny].join('.')
join(nx, ny) == numberToString(nx) \o <<".">> \o numberToString(ny)

\* s.replace(/-/g, 'M')
replaceMinus(s) == [k \in DOMAIN s |-> IF s[k] = "-" THEN "M" ELSE s[k]]

\* lines 285, 310, 337
featureId(nx, ny) == replaceMinus(join(nx, ny))

\* the object pushed onto output: x, y is the centre, offsets the ring's corners
feature(nx, ny, x, y, offsets) ==
    [type |-> "Polygon",
     id |-> featureId(nx, ny),
     properties |-> [address |-> <<x, y>>],
     coordinates |-> << [k \in DOMAIN offsets |->
                          <<Add(x, offsets[k][1]), Add(y, offsets[k][2])>>] >>]

\* lines 274-297
squareGrid(bbox, center, dx, dy) ==
    LET minX == Floor(Div(Sub(bbox[1], center[1]), dx))
        maxX == Ceil(Div(Sub(bbox[3], center[1]), dx))
        minY == Floor(Div(Sub(bbox[2], center[2]), dy))
        maxY == Ceil(Div(Sub(bbox[4], center[2]), dy))
        hx == Mul(OneHalf, dx)
        hy == Mul(OneHalf, dy)
        cell(nx, ny) ==
            feature(nx, ny, Add(center[1], Mul(Num(nx), dx)), Add(center[2], Mul(Num(ny), dy)),
                    << <<hx, hy>>, <<Neg(hx), hy>>, <<Neg(hx), Neg(hy)>>, <<hx, Neg(hy)>> >>)
    IN  Flatten([a \in 1..(maxX - minX + 1) |->
            [b \in 1..(maxY - minY + 1) |-> cell(minX + a - 1, minY + b - 1)]])

\* lines 298-324
hexagonGrid(bbox, center, dx, dy) ==
    LET minX == Floor(Div(Sub(bbox[1], center[1]), Mul(dx, ThreeQuarters)))
        maxX == Ceil(Div(Sub(bbox[3], center[1]), Mul(dx, ThreeQuarters)))
        cy(nx) == Add(center[2], Mul(Mul(Num(nx), dy), OneHalf))
        minY(nx) == Floor(Div(Sub(bbox[2], cy(nx)), dy))
        maxY(nx) == Ceil(Div(Sub(bbox[4], cy(nx)), dy))
        hx == Mul(OneHalf, dx)
        qx == Mul(OneQuarter, dx)
        hy == Mul(OneHalf, dy)
        cell(nx, ny) ==
            feature(nx, ny, Add(center[1], Mul(Mul(Num(nx), dx), ThreeQuarters)),
                    Add(cy(nx), Mul(Num(ny), dy)),
                    << <<hx, Num(0)>>, <<qx, hy>>, <<Neg(qx), hy>>,
                       <<Neg(hx), Num(0)>>, <<Neg(qx), Neg(hy)>>, <<qx, Neg(hy)>> >>)
    IN  Flatten([a \in 1..(maxX - minX + 1) |->
            [b \in 1..(maxY(minX + a - 1) - minY(minX + a - 1) + 1) |->
                cell(minX + a - 1, minY(minX + a - 1) + b - 1)]])

\* lines 325-351
hexagonBGrid(bbox, center, dx, dy) ==
    LET minY == Floor(Div(Sub(bbox[2], center[2]), Mul(dy, ThreeQuarters)))
        maxY == Ceil(Div(Sub(bbox[4], center[2]), Mul(dy, ThreeQuarters)))
        cx(ny) == Add(center[1], Mul(Mul(Num(ny), dx), OneHalf))
        minX(ny) == Floor(Div(Sub(bbox[1], cx(ny)), dx))
        maxX(ny) == Ceil(Div(Sub(bbox[3], cx(ny)), dx))
        hx == Mul(OneHalf, dx)
        hy == Mul(OneHalf, dy)
        qy == Mul(OneQuarter, dy)
        cell(nx, ny) ==
            feature(nx, ny, Add(cx(ny), Mul(Num(nx), dx)),
                    Add(center[2], Mul(Mul(Num(ny), dy), ThreeQuarters)),
                    << <<Num(0), hy>>, <<Neg(hx), qy>>, <<Neg(hx), Neg(qy)>>,
                       <<Num(0), Neg(hy)>>, <<hx, Neg(qy)>>, <<hx, qy>> >>)
    IN  Flatten([b \in 1..(maxY - minY + 1) |->
            [a \in 1..(maxX(minY + b - 1) - minX(minY + b - 1) + 1) |->
                cell(minX(minY + b - 1) + a - 1, minY + b - 1)]])

\* lines 272-352: the array `output` before the filter
gridOutput(o, bbox) ==
    LET d == gridSteps(o)
    IN  IF o.shape[1] = "square" THEN squareGrid(bbox, o.center[1], d[1], d[2])
        ELSE IF o.shape[1] \in {"hexagon", "hexagonA"}
             THEN hexagonGrid(bbox, o.center[1], d[1], d[2])
        ELSE IF o.shape[1] = "hexagonB" THEN hexagonBGrid(bbox, o.center[1], d[1], d[2])
        ELSE <<>>

\* lines 368-370: the isInside of this revision has an empty body;
\* it returns undefined, which the filter reads as false
isInsideLocal(point, polygon) == FALSE

\* lines 357-362
allPoints(in) == Flatten([p \in DOMAIN in |-> Flatten(in[p])])

\* lines 354-365; grid.address is not a property of the pushed objects
outputFilter(out, in) ==
    SelectSeq(out, LAMBDA grid :
        \/ \E p \in DOMAIN in : isInsideLocal("undefined", in[p])
        \/ \E n \in DOMAIN allPoints(in) : isInsideLocal(allPoints(in)[n], grid.coordinates))

(***************************************************************************)
(* The callers' inputs                                                     *)
(***************************************************************************)
\* a square of one default cell
Square == << << <<0, 0>>, <<0, 8>>, <<8, 8>>, <<8, 0>>, <<0, 0>> >> >>

\* a rectangle whose sides lie on lattice lines of the default lattice
LatticeRect == << << <<8, 8>>, <<8, -8>>, <<-8, -8>>, <<-8, 8>>, <<8, 8>> >> >>

\* a diamond whose four vertices lie on lattice lines of the default lattice
Diamond == << << <<-4, 0>>, <<0, 4>>, <<4, 0>>, <<0, -4>>, <<-4, 0>> >> >>

\* a square with a square hole
Holed == << << <<-12, -12>>, <<-12, 12>>, <<12, 12>>, <<12, -12>>, <<-12, -12>> >>,
            << <<-3, -3>>, <<3, -3>>, <<3, 3>>, <<-3, 3>>, <<-3, -3>> >> >>

\* a square well inside one default cell
Tiny == << << <<1, 1>>, <<1, 3>>, <<3, 3>>, <<3, 1>>, <<1, 1>> >> >>

FarSquare == << << <<16, 0>>, <<16, 8>>, <<24, 8>>, <<24, 0>>, <<16, 0>> >> >>

Triangle == << << <<0, 0>>, <<10, 3>>, <<3, 9>>, <<0, 0>> >> >>

\* the geometries handed to hextile: each a list of polygons
Geometries ==
    {<<Square>>, <<LatticeRect>>, <<Diamond>>, <<Holed>>, <<Tiny>>,
     <<Square, FarSquare>>, <<Triangle>>}

Shapes == {Absent, <<"square">>, <<"hexagon">>, <<"hexagonB">>}

Tilts == {Absent, <<90>>}

Widths == {Absent, <<100>>, <<1000000>>}

Centers == {Absent, << <<Num(0), Num(0)>> >>}

\* an options object as a caller writes it
FreshOptions ==
    [shape : Shapes, tilt : Tilts, width : Widths, center : Centers,
     projection : {Absent}, getAngularDistance : {Absent}]

NoOptions ==
    [shape |-> Absent, tilt |-> Absent, width |-> Absent, center |-> Absent,
     projection |-> Absent, getAngularDistance |-> Absent]

\* an L-shaped ring: a reflex corner, and horizontal edges at three latitudes
Ell == << <<0, 0>>, <<8, 0>>, <<8, 4>>, <<4, 4>>, <<4, 8>>, <<0, 8>>, <<0, 0>> >>

\* the rings handed to a direct call of isInside: every ring of the geometries, and Ell
TestRings ==
    {Ring(Ell)} \cup
    UNION {UNION {{Ring(g[p][r]) : r \in DOMAIN g[p]} : p \in DOMAIN g} : g \in Geometries}

\* the axes handed to a direct call of linearSolver
SolverAxes == {<<Num(a), Num(b)>> : a \in -1..1, b \in -1..1}

NoValue == [kind |-> "none", features |-> <<>>]

NoSolution == [axis1 |-> <<>>, axis2 |-> <<>>, d1 |-> 0, d2 |-> 0, point |-> <<>>]

NoVerdict == [point |-> <<>>, linearRing |-> <<>>, isInside |-> FALSE]

(***************************************************************************)
(* The state machine                                                       *)
(***************************************************************************)
Init ==
    /\ rev \in {"tilt", "grid"}
    /\ pc = "idle"
    /\ calls = 0
    /\ options = NoOptions
    /\ supplied = NoOptions
    /\ geojson = <<>>
    /\ input = <<>>
    /\ output = <<>>
    /\ edges = <<>>
    /\ cursor = 0
    /\ returned = NoValue
    /\ error = "none"
    /\ solution = NoSolution
    /\ traced = {}
    /\ verdict = NoVerdict

\* a caller may call when no call is running
Callable == pc \in {"idle", "returned", "threw"} /\ calls < MaxCalls

\* the first call gets a fresh object, a later call the object of the call before
OptionsPassed == IF calls = 0 THEN FreshOptions ELSE {options}

\* index.js lines 16-111: normalisation, defaults and cell enumeration
HextileTilt(g, o) ==
    /\ rev = "tilt"
    /\ Callable
    /\ LET in   == normalize(g)
           bbox == combinedBbox(in)
           o1   == tiltDefaults(o, bbox)
           square == o1.shape[1] = "square"
       IN  /\ options' = o1
           /\ input' = in
           /\ output' = IF square
                        THEN enumerateSquares(beta0Of(o1), beta1Of(o1), o1.projection[1], bbox)
                        ELSE <<>>
           /\ edges' = IF square THEN allEdges(o1.projection[1], in) ELSE <<>>
    /\ geojson' = g
    /\ supplied' = IF calls = 0 THEN o ELSE supplied
    /\ calls' = calls + 1
    /\ cursor' = 0
    /\ traced' = {}
    /\ pc' = "tracing"
    /\ returned' = NoValue
    /\ error' = "none"
    /\ UNCHANGED <<rev, solution, verdict>>

\* index.js lines 116-159: the pass of the loop over the edges for edge n
TracePass(n) ==
    /\ pc = "tracing"
    /\ LET t == traceEdge(output, beta0Of(options), beta1Of(options), edges[n])
       IN  /\ output' = t.output
           /\ IF t.thrown = "none"
              THEN /\ cursor' = cursor + 1
                   /\ UNCHANGED <<pc, error>>
              ELSE /\ pc' = "threw"
                   /\ error' \in IF t.thrown = "cell" THEN {"TypeError"}
                                 ELSE {"ReferenceError", "TypeError"}
                   /\ UNCHANGED cursor
    /\ traced' = traced \cup {n}
    /\ UNCHANGED <<rev, calls, options, supplied, geojson, input, edges, returned, solution,
                   verdict>>

\* index.js lines 113-116: forEach visits the edges in the order of the input
TraceEdge ==
    /\ cursor < Len(edges)
    /\ TracePass(cursor + 1)

\* index.js line 215: the function ends without a return statement
ReturnTilt ==
    /\ pc = "tracing"
    /\ cursor = Len(edges)
    /\ pc' = "returned"
    /\ returned' = [kind |-> "undefined", features |-> <<>>]
    /\ UNCHANGED <<rev, calls, options, supplied, geojson, input, output, edges, cursor,
                   traced, error, solution, verdict>>

\* index.js lines 229-366
HextileGrid(g, o) ==
    /\ rev = "grid"
    /\ Callable
    /\ LET in   == extractPolygons(g)
           bbox == gridBbox(in)
           o1   == gridDefaults(o, bbox)
           out  == gridOutput(o1, bbox)
       IN  /\ options' = o1
           /\ input' = in
           /\ output' = out
           /\ returned' = [kind |-> "array", features |-> outputFilter(out, in)]
    /\ geojson' = g
    /\ supplied' = IF calls = 0 THEN o ELSE supplied
    /\ calls' = calls + 1
    /\ pc' = "returned"
    /\ error' = "none"
    /\ UNCHANGED <<rev, edges, cursor, traced, solution, verdict>>

\* helpers.js lines 26-34, called by a client of the helper module
Solve(axis1, axis2, d1, d2) ==
    /\ pc = "idle"
    /\ pc' = "solved"
    /\ solution' = [axis1 |-> axis1, axis2 |-> axis2, d1 |-> d1, d2 |-> d2,
                    point |-> linearSolver(axis1, axis2, Num(d1), Num(d2))]
    /\ UNCHANGED <<rev, calls, options, supplied, geojson, input, output, edges, cursor,
                   traced, returned, error, verdict>>

\* helpers.js lines 36-49, called by a client of the helper module
IsInside(point, linearRing) ==
    /\ pc = "idle"
    /\ pc' = "tested"
    /\ verdict' = [point |-> point, linearRing |-> linearRing,
                   isInside |-> isInside(point, linearRing)]
    /\ UNCHANGED <<rev, calls, options, supplied, geojson, input, output, edges, cursor,
                   traced, returned, error, solution>>

Next ==
    \/ \E g \in Geometries : \E o \in OptionsPassed : HextileTilt(g, o)
    \/ TraceEdge
    \/ ReturnTilt
    \/ \E g \in Geometries : \E o \in OptionsPassed : HextileGrid(g, o)
    \/ \E axis1 \in SolverAxes, axis2 \in SolverAxes :
          \E d1 \in (-MaxTarget)..MaxTarget, d2 \in (-MaxTarget)..MaxTarget :
             Solve(axis1, axis2, d1, d2)
    \/ \E linearRing \in TestRings :
          \E lng \in (-ProbeSpan)..ProbeSpan, lat \in (-ProbeSpan)..ProbeSpan :
             IsInside(Position(<<lng, lat>>), linearRing)

Spec == Init /\ [][Next]_vars

(***************************************************************************)
(* Tracing with the edges visited in any order                             *)
(***************************************************************************)
\* one call of the tilt-aware revision on a fresh options object
HextileOnce(g, o) ==
    /\ calls = 0
    /\ HextileTilt(g, o)

\* index.js lines 116-159 for any edge not visited yet, or, at most MaxRetraced
\* times in a call, for an edge visited before
TraceAnyEdge(n) ==
    /\ n \in traced => cursor - Cardinality(traced) < MaxRetraced
    /\ TracePass(n)

\* index.js line 215, reached when every edge has been visited
ReturnAnyOrder ==
    /\ pc = "tracing"
    /\ traced = DOMAIN edges
    /\ pc' = "returned"
    /\ returned' = [kind |-> "undefined", features |-> <<>>]
    /\ UNCHANGED <<rev, calls, options, supplied, geojson, input, output, edges, cursor,
                   traced, error, solution, verdict>>

InitAnyOrder == Init /\ rev = "tilt"

NextAnyOrder ==
    \/ \E g \in Geometries : \E o \in FreshOptions : HextileOnce(g, o)
    \/ \E n \in DOMAIN edges : TraceAnyEdge(n)
    \/ ReturnAnyOrder

SpecAnyOrder == InitAnyOrder /\ [][NextAnyOrder]_vars

(***************************************************************************)
(* The call as a whole, on a given options object                          *)
(***************************************************************************)
\* index.js lines 16-215: how a call ends and what it returns
hextileTilt(g, o) ==
    LET in   == normalize(g)
        bbox == combinedBbox(in)
        o1   == tiltDefaults(o, bbox)
        square == o1.shape[1] = "square"
        out  == IF square
                THEN enumerateSquares(beta0Of(o1), beta1Of(o1), o1.projection[1], bbox)
                ELSE <<>>
        es   == IF square THEN allEdges(o1.projection[1], in) ELSE <<>>
        end  == traceAll(out, beta0Of(o1), beta1Of(o1), es)
    IN  [pc |-> end,
         returned |-> IF end = "returned" THEN [kind |-> "undefined", features |-> <<>>]
                      ELSE NoValue]

\* index.js lines 229-366: how a call ends and what it returns
hextileGrid(g, o) ==
    LET in   == extractPolygons(g)
        bbox == gridBbox(in)
        o1   == gridDefaults(o, bbox)
    IN  [pc |-> "returned",
         returned |-> [kind |-> "array",
                       features |-> outputFilter(gridOutput(o1, bbox), in)]]

(***************************************************************************)
(* Vocabulary of the properties                                            *)
(***************************************************************************)
Values(f) == {f[x] : x \in DOMAIN f}

\* a call has got past its defaults
Called == pc \in {"tracing", "returned", "threw"}

\* the rings of the polygons of the current call, in lon/lat
PolygonRings == {IF rev = "tilt" THEN input[p].coordinates ELSE input[p] : p \in DOMAIN input}

\* vertices and edge midpoints of every ring: points of the input's boundary
BoundaryPoints ==
    UNION {UNION {{ring[n] : n \in DOMAIN ring}
                  \cup {<<Div(Add(ring[n][1], ring[n + 1][1]), Num(2)),
                          Div(Add(ring[n][2], ring[n + 1][2]), Num(2))>> :
                            n \in 1..(Len(ring) - 1)} :
                  ring \in Values(rings)} : rings \in PolygonRings}

\* (b - a) x (q - a)
Cross(a, b, q) ==
    Sub(Mul(Sub(b[1], a[1]), Sub(q[2], a[2])), Mul(Sub(b[2], a[2]), Sub(q[1], a[1])))

\* q lies in the closed convex region bounded by the ring
WithinRing(q, ring) ==
    LET succ(k) == IF k = Len(ring) THEN 1 ELSE k + 1
    IN  \/ \A k \in DOMAIN ring : Le(Num(0), Cross(ring[k], ring[succ(k)], q))
        \/ \A k \in DOMAIN ring : Le(Cross(ring[k], ring[succ(k)], q), Num(0))

\* the hole-aware containment test: inside the outer ring and inside no hole
InsidePolygon(q, rings) ==
    /\ isInside(q, rings[1])
    /\ \A h \in 2..Len(rings) : ~isInside(q, rings[h])

\* the lon/lat centre of an enumerated cell
CellCenter(c) ==
    IF rev = "tilt" THEN inverse(options.projection[1], c.properties.address)
    ELSE c.properties.address

CellKeep(c) == rev = "tilt" /\ c.keep

InReturned(c) == \E k \in DOMAIN returned.features : returned.features[k] = c

\* the textual encoding of an address: decimal, a leading minus written M, joined by .
EncodeComponent(n) == IF n < 0 THEN <<"M">> \o Digits(-n) ELSE Digits(n)

EncodeAddress(i, j) == EncodeComponent(i) \o <<".">> \o EncodeComponent(j)

DigitValue(ch) == CHOOSE d \in 0..9 : DigitChar(d) = ch

RECURSIVE ParseNat(_)
ParseNat(s) ==
    IF Len(s) = 1 THEN DigitValue(s[1])
    ELSE 10 * ParseNat(SubSeq(s, 1, Len(s) - 1)) + DigitValue(s[Len(s)])

ParseComponent(s) == IF s[1] = "M" THEN -ParseNat(Tail(s)) ELSE ParseNat(s)

\* the integer address an id denotes
DecodeId(id) ==
    LET dot == CHOOSE k \in DOMAIN id : id[k] = "."
    IN  <<ParseComponent(SubSeq(id, 1, dot - 1)), ParseComponent(SubSeq(id, dot + 1, Len(id)))>>

IsInteger(a) == a[2] = 1

FinitePoint(p) == IsFinite(p[1]) /\ IsFinite(p[2])

\* edge n has been traced, to completion or to the throw
Attempted(n) == n <= cursor \/ (pc = "threw" /\ n = cursor + 1)

\* the two cells on either side of lattice line `line` of `axis` where edge e crosses it
Straddling(axis, line, e) ==
    LET b0 == beta0Of(options)
        b1 == beta1Of(options)
    IN  IF axis = 0
        THEN LET j == Floor(dotProduct(b1, linearSolver(b0, edgeBeta(e), Num(line), edgeK(e))))
             IN  {<<line, j>>, <<line - 1, j>>}
        ELSE LET i == Floor(dotProduct(b0, linearSolver(b1, edgeBeta(e), Num(line), edgeK(e))))
             IN  {<<i, line>>, <<i, line - 1>>}

Flagged(a) == a \in DOMAIN output /\ output[a].keep

TracingSquares == rev = "tilt" /\ Called /\ options.shape[1] = "square"

(***************************************************************************)
(* The properties                                                          *)
(***************************************************************************)
\* C1 (coverage): when a call has returned, every point of the input's boundary
\* (here every vertex and every edge midpoint) lies within the ring of some
\* feature of the returned output.
Coverage ==
    pc = "returned" =>
        \A q \in BoundaryPoints :
            \E k \in DOMAIN returned.features :
                WithinRing(q, returned.features[k].coordinates[1])

\* C2 (retention): when a call has returned, an enumerated cell is in the
\* returned output iff its keep flag is set or its centre is inside some input
\* polygon (inside the outer ring and inside no hole).
Retention ==
    pc = "returned" =>
        \A c \in Values(output) :
            InReturned(c) <=>
                (CellKeep(c) \/ \E rings \in PolygonRings : InsidePolygon(CellCenter(c), rings))

\* C3 (closure): every cell the call has built for its output has a closed ring:
\* 5 positions for a square, 7 for a hexagon, the last equal to the first.
Closure ==
    Called =>
        \A c \in Values(output) :
            LET ring == c.coordinates[1]
            IN  /\ ring[Len(ring)] = ring[1]
                /\ Len(ring) = IF options.shape[1] = "square" THEN 5 ELSE 7

\* the width a call works with, read back from what it built
WidthUsed ==
    IF rev = "tilt" THEN Mul(options.projection[1].dy, Num(GeoUnit))
    ELSE Num(options.width[1])

\* C4 (width clamping): the width a call works with is 1000 when the caller gave
\* none, and min(max(w, 500), 500000) when the caller gave w.
WidthClamping ==
    (Called /\ calls = 1) =>
        WidthUsed = IF supplied.width = Absent THEN Num(1000)
                    ELSE Num(MathMin(MathMax(supplied.width[1], 500), 500000))

\* C5 (identifier encoding): every feature built for the output carries an id,
\* and the id is the textual encoding of the integer lattice address the same
\* feature carries.
IdEncodesAddress ==
    Called =>
        \A c \in Values(output) :
            /\ "id" \in DOMAIN c
            /\ LET a == c.properties.address
               IN  /\ IsInteger(a[1]) /\ IsInteger(a[2])
                   /\ c.id = EncodeAddress(a[1][1], a[2][1])

\* C6 (hexagon parity): when shape is 'hexagon', every hexagon built for the
\* output has an integer address (i, j), the one its id denotes, with
\* (i + j) mod 3 = 0.
HexagonParity ==
    (Called /\ options.shape[1] = "hexagon") =>
        \A c \in Values(output) :
            (DecodeId(c.id)[1] + DecodeId(c.id)[2]) % 3 = 0

\* C7 (degenerate solver): a solver built from two axes of determinant zero
\* fails with an error and returns no point; and no cell of a hextile call has
\* a coordinate that is not finite.
DegenerateSolverFails ==
    /\ (pc = "solved" /\ DET(solution.axis1, solution.axis2) = Num(0)) =>
            (error # "none" /\ solution.point = <<>>)
    /\ TracingSquares =>
            \A c \in Values(output) :
                \A k \in DOMAIN c.coordinates[1] : FinitePoint(c.coordinates[1][k])

\* C8 (statelessness): however a call ends, it ends as a call on a fresh
\* options object carrying the caller-supplied values ends, and returns what
\* that call returns.
Stateless ==
    pc \in {"returned", "threw"} =>
        [pc |-> pc, returned |-> returned] =
            IF rev = "tilt" THEN hextileTilt(geojson, supplied)
            ELSE hextileGrid(geojson, supplied)

\* C9 (per-axis crossing detection): for every edge the tracing has reached and
\* for each axis, tracing the edge raised no error and, for every lattice line
\* strictly between the endpoints' lattice coordinates, both cells straddling
\* the crossing have their keep flag set.
CrossingDetection ==
    TracingSquares =>
        \A n \in DOMAIN edges :
            Attempted(n) =>
                /\ ~(pc = "threw" /\ n = cursor + 1)
                /\ \A i \in edgeStart(beta0Of(options), edges[n])..edgeEnd(beta0Of(options), edges[n]) :
                      \A a \in Straddling(0, i, edges[n]) : Flagged(a)
                /\ \A j \in edgeStart(beta1Of(options), edges[n])..edgeEnd(beta1Of(options), edges[n]) :
                      \A a \in Straddling(1, j, edges[n]) : Flagged(a)

\* C10 (explored window): every lattice address on which the tracing of an
\* edge sets a keep flag is an address the cell enumeration created, for every
\* edge the tracing has reached.
ExploredWindow ==
    TracingSquares =>
        \A n \in DOMAIN edges :
            Attempted(n) =>
                \A a \in Values(axis0Writes(beta0Of(options), beta1Of(options), edges[n])) :
                    a \in DOMAIN output

\* x lies between a and b, the ends included
Between(x, a, b) == (Le(a, x) /\ Le(x, b)) \/ (Le(b, x) /\ Le(x, a))

\* q lies on the segment from a to b
OnSegment(a, b, q) ==
    /\ Cross(a, b, q) = Num(0)
    /\ Between(q[1], a[1], b[1])
    /\ Between(q[2], a[2], b[2])

\* q lies on the boundary of the closed ring
OnBoundary(q, ring) == \E n \in 1..(Len(ring) - 1) : OnSegment(ring[n], ring[n + 1], q)

\* the edge from a to b meets the open ray going right from q, an endpoint at the
\* latitude of q counting as lying below the ray
CrossesRay(a, b, q) ==
    /\ Lt(q[2], a[2]) # Lt(q[2], b[2])
    /\ Lt(q[1], Add(a[1], Div(Mul(Sub(q[2], a[2]), Sub(b[1], a[1])), Sub(b[2], a[2]))))

\* the even-odd rule: q is interior when the ray to its right meets the ring an odd
\* number of times
EvenOddInterior(q, ring) ==
    Cardinality({n \in 1..(Len(ring) - 1) : CrossesRay(ring[n], ring[n + 1], q)}) % 2 = 1

\* C11 (point-in-ring parity test): for a query point not on the ring's boundary,
\* what isInside returned is true exactly when the point is in the ring's interior
\* under the even-odd rule, also when the point's latitude is that of a ring vertex
\* to its right or of a horizontal ring edge.
ParityTest ==
    (pc = "tested" /\ ~OnBoundary(verdict.point, verdict.linearRing)) =>
        (verdict.isInside <=> EvenOddInterior(verdict.point, verdict.linearRing))

\* the cells with every keep flag unset, as enumeration leaves them
Unflagged(out) == [a \in DOMAIN out |-> [out[a] EXCEPT !.keep = FALSE]]

\* the cells whose keep flag the pass for edge n sets
FlagsOf(n) ==
    LET t == traceEdge(Unflagged(output), beta0Of(options), beta1Of(options), edges[n])
    IN  {a \in DOMAIN output : t.output[a].keep}

\* the keep flags set are those that the edges traced set each on its own
KeepMapOfTraced ==
    (rev = "tilt" /\ Called) =>
        {a \in DOMAIN output : output[a].keep} = UNION {FlagsOf(n) : n \in traced}

\* the call ends as it ends with the edges in forEach order
EndsAlike ==
    (rev = "tilt" /\ pc \in {"returned", "threw"}) =>
        pc = traceAll(Unflagged(output), beta0Of(options), beta1Of(options), edges)

\* a step of tracing sets keep flags that were unset and changes nothing else of the
\* cells; a pass for an edge traced before changes nothing
TracingStep ==
    pc = "tracing" =>
        /\ DOMAIN output' = DOMAIN output
        /\ \A a \in DOMAIN output :
              \/ output'[a] = output[a]
              \/ ~output[a].keep /\ output'[a] = [output[a] EXCEPT !.keep = TRUE]
        /\ traced' = traced => output' = output

\* C12 (order-independence of tracing): tracing only ever changes a keep flag from
\* unset to true and never clears one; whatever order the edges are traced in, the
\* keep flags set are those that the edges traced set each on its own, and the call
\* ends as it ends in forEach order; tracing an edge a second time changes nothing.
OrderIndependence == [](KeepMapOfTraced /\ EndsAlike) /\ [][TracingStep]_vars

\* a call has returned after its edges were traced in some order, one of them twice;
\* two of its edges set the keep flag of the same cell, and another sets other flags
TracedOutOfOrder ==
    /\ pc = "returned"
    /\ cursor > Cardinality(traced)
    /\ \E m \in DOMAIN edges, n \in DOMAIN edges, l \in DOMAIN edges :
          /\ m # n /\ FlagsOf(m) \cap FlagsOf(n) # {}
          /\ FlagsOf(l) # {} /\ FlagsOf(l) # FlagsOf(m)

====
